---- MODULE Spec2Model ----
(***************************************************************************)
(* ContextBundler: bundle.py serialises a project tree into one text       *)
(* artifact, apply.py parses such text back into file blocks and writes    *)
(* them under a project root.  Texts, paths and file contents are modelled *)
(* as Python models them: strings, here sequences of one-character         *)
(* strings, so that the regular expressions and the os.path functions are  *)
(* computed character by character.                                        *)
(***************************************************************************)
EXTENDS Integers, Sequences, FiniteSets, TLC

(***************************************************************************)
(* Strings                                                                 *)
(***************************************************************************)

\* str.isspace() / the regex class \s, on the characters the model uses.
IsSpace(c) == c \in {" ", "\t", "\n", "\r", "\f"}

\* The regex class \w: letters, digits and the underscore.
IsWord(c) ==
    c \in {"a","b","c","d","e","f","g","h","i","j","k","l","m","n","o","p","q",
           "r","s","t","u","v","w","x","y","z",
           "A","B","C","D","E","F","G","H","I","J","K","L","M","N","O","P","Q",
           "R","S","T","U","V","W","X","Y","Z",
           "0","1","2","3","4","5","6","7","8","9","_"}

Min(S) == CHOOSE x \in S : \A y \in S : x <= y

Max(S) == CHOOSE x \in S : \A y \in S : x >= y

\* s[i:j] of Python with 1-based i and exclusive j.
Slice(s, i, j) == IF j <= i THEN <<>> ELSE SubSeq(s, i, j - 1)

\* s.startswith(lit) at position i: the literal lit occurs in s at i.
LitAt(s, i, lit) ==
    /\ i >= 1
    /\ i + Len(lit) - 1 <= Len(s)
    /\ \A k \in 1..Len(lit) : s[i + k - 1] = lit[k]

StartsWith(s, lit) == LitAt(s, 1, lit)

EndsWith(s, lit) == Len(s) >= Len(lit) /\ LitAt(s, Len(s) - Len(lit) + 1, lit)

\* The position after the longest run of \s starting at i (a greedy \s*).
RECURSIVE SkipSpace(_, _)
SkipSpace(s, i) ==
    IF i <= Len(s) /\ IsSpace(s[i]) THEN SkipSpace(s, i + 1) ELSE i

\* The position after the longest run of \w starting at i (a greedy \w*).
RECURSIVE SkipWord(_, _)
SkipWord(s, i) ==
    IF i <= Len(s) /\ IsWord(s[i]) THEN SkipWord(s, i + 1) ELSE i

\* str.strip(): leading and trailing whitespace removed.
Strip(s) ==
    LET keep == {i \in 1..Len(s) : ~IsSpace(s[i])}
    IN  IF keep = {} THEN <<>> ELSE SubSeq(s, Min(keep), Max(keep))

\* str.replace("\r\n", "\n").replace("\r", "\n"): the newline after a
\* carriage return goes, and every carriage return becomes a newline.
NormalizeNewlines(s) ==
    LET at == SelectSeq([i \in 1..Len(s) |-> i],
                        LAMBDA i : ~(s[i] = "\n" /\ i > 1 /\ s[i - 1] = "\r"))
    IN  [k \in 1..Len(at) |-> IF s[at[k]] = "\r" THEN "\n" ELSE s[at[k]]]

\* "sep".join(parts)
RECURSIVE Join(_, _)
Join(sep, parts) ==
    IF parts = <<>> THEN <<>>
    ELSE IF Len(parts) = 1 THEN parts[1]
    ELSE parts[1] \o sep \o Join(sep, Tail(parts))

\* str.split(sep) for a one-character separator.
RECURSIVE Split(_, _)
Split(s, sep) ==
    LET at == {i \in 1..Len(s) : s[i] = sep}
    IN  IF at = {} THEN <<s>>
        ELSE <<Slice(s, 1, Min(at))>> \o Split(Slice(s, Min(at) + 1, Len(s) + 1), sep)

\* Concatenation of a sequence of strings.
Concat(parts) == Join(<<>>, parts)

(***************************************************************************)
(* apply.py: the three patterns                                            *)
(***************************************************************************)

EQ5 == <<"=", "=", "=", "=", "=">>

\* The backtick character, which a TLA+ string literal cannot hold.
BQ == "BACKTICK"

FENCE == <<BQ, BQ, BQ>>

FILE_COLON == <<"F", "I", "L", "E", ":">>

END_FILE_COLON == <<"E", "N", "D", " ", "F", "I", "L", "E", ":">>

NoMatch == [ok |-> FALSE]

\* re.MULTILINE: ^ matches at the start of the string and after each newline.
AtLineStart(s, i) == i = 1 \/ (i >= 2 /\ i <= Len(s) + 1 /\ s[i - 1] = "\n")

\* The group of a marker and the ={5} after it.  The lazy group starts at b,
\* where the greedy whitespace run that began at lo ends, and ends before
\* first, the first position after b from which the rest of the pattern
\* matches (0 when there is none).  When there is none, the run gives its
\* last character to the group, the rest matching from b (atB).
MarkerPath(lo, b, first, atB) ==
    IF first # 0 THEN [ok |-> TRUE, from |-> b, to |-> first]
    ELSE IF b > lo /\ atB THEN [ok |-> TRUE, from |-> b - 1, to |-> b]
    ELSE NoMatch

\* The least element of a set of positions, 0 when the set is empty.
First(S) == IF S = {} THEN 0 ELSE Min(S)

\* The line start j opens the close marker: ={5}, whitespace, END FILE:
IsCloseStart(s, j) ==
    AtLineStart(s, j) /\ LitAt(s, j, EQ5) /\ LitAt(s, SkipSpace(s, j + 5), END_FILE_COLON)

\* Group 3 and the end of the close marker whose group is g.
CloseMatch(s, g) ==
    IF ~g.ok THEN NoMatch
    ELSE [ok |-> TRUE, path |-> Slice(s, g.from, g.to), end |-> SkipSpace(s, g.to) + 5]

\* The close marker of FILE_BLOCK_PATTERN at position j.
CloseMarkerAt(s, j) ==
    IF ~IsCloseStart(s, j) THEN NoMatch
    ELSE LET k2 == SkipSpace(s, j + 5) + 9
             b  == SkipSpace(s, k2)
         IN  CloseMatch(s, MarkerPath(k2, b,
                 First({e \in (b + 1)..(Len(s) + 1) : LitAt(s, SkipSpace(s, e), EQ5)}),
                 LitAt(s, b, EQ5)))

\* The first position from j0 on at which the close marker matches, 0 when
\* there is none.
RECURSIVE FirstClose(_, _)
FirstClose(s, j0) ==
    LET j == First({k \in j0..(Len(s) + 1) : IsCloseStart(s, k)})
    IN  IF j = 0 THEN 0
        ELSE IF CloseMarkerAt(s, j).ok THEN j
        ELSE FirstClose(s, j + 1)

\* The content group, which starts at c0 and ends before the close marker
\* at j (0 when there is none).
BodyAt(s, c0, j) ==
    IF j = 0 THEN NoMatch
    ELSE [ok |-> TRUE, content |-> Slice(s, c0, j), close |-> CloseMarkerAt(s, j)]

\* After the last ={5} of the open marker, which ends before p: optional
\* whitespace and a newline, the lazy content group and the close marker.
\* The greedy whitespace run leaves its last newline to the newline atom.
BodyFrom(s, p) ==
    LET nls == {q \in p..(SkipSpace(s, p) - 1) : s[q] = "\n"}
    IN  IF nls = {} THEN NoMatch
        ELSE BodyAt(s, Max(nls) + 1, FirstClose(s, Max(nls) + 1))

\* The open marker can end with its group ending before e: ={5} follows the
\* whitespace after e, and the rest of the pattern matches from there.
OpenEndsAt(s, e) ==
    LET q == SkipSpace(s, e)
    IN  LitAt(s, q, EQ5) /\ BodyFrom(s, q + 5).ok

\* The first position from e0 on before which the group of the open marker
\* can end, 0 when there is none.
RECURSIVE FirstOpenEnd(_, _)
FirstOpenEnd(s, e0) ==
    LET e == First({k \in e0..(Len(s) + 1) : LitAt(s, SkipSpace(s, k), EQ5)})
    IN  IF e = 0 THEN 0
        ELSE IF OpenEndsAt(s, e) THEN e
        ELSE FirstOpenEnd(s, e + 1)

\* The line start i opens the open marker: ={5}, whitespace, FILE:
IsOpenStart(s, i) ==
    AtLineStart(s, i) /\ LitAt(s, i, EQ5) /\ LitAt(s, SkipSpace(s, i + 5), FILE_COLON)

\* The match that starts at i, whose open marker has the group g and whose
\* rest is body.
BlockMatch(s, i, g, body) ==
    [ok |-> TRUE, start |-> i, open |-> Slice(s, g.from, g.to), content |-> body.content,
     close |-> body.close.path, end |-> body.close.end]

\* The match of FILE_BLOCK_PATTERN at i whose open marker has the group g.
OpenMatch(s, i, g) ==
    IF ~g.ok THEN NoMatch ELSE BlockMatch(s, i, g, BodyFrom(s, SkipSpace(s, g.to) + 5))

\* FILE_BLOCK_PATTERN matched at position i.
FileBlockAt(s, i) ==
    IF ~IsOpenStart(s, i) THEN NoMatch
    ELSE LET k2 == SkipSpace(s, i + 5) + 5
             b  == SkipSpace(s, k2)
         IN  OpenMatch(s, i, MarkerPath(k2, b, FirstOpenEnd(s, b + 1), OpenEndsAt(s, b)))

\* FILE_BLOCK_PATTERN.finditer(text): the non-overlapping matches from pos
\* on, each found at the first position at which the pattern matches.
RECURSIVE FileBlockMatches(_, _)
FileBlockMatches(s, pos) ==
    LET i == First({k \in pos..Len(s) : IsOpenStart(s, k)})
    IN  IF i = 0 THEN <<>>
        ELSE LET m == FileBlockAt(s, i)
             IN  IF m.ok THEN <<m>> \o FileBlockMatches(s, m.end)
                 ELSE FileBlockMatches(s, i + 1)

\* A line that starts with a fence followed by whitespace up to an end of
\* line: the end of CODE_FENCE_PATTERN, at position j.
IsFenceEnd(s, j) ==
    /\ AtLineStart(s, j)
    /\ LitAt(s, j, FENCE)
    /\ \/ SkipSpace(s, j + 3) = Len(s) + 1
       \/ \E q \in (j + 3)..(SkipSpace(s, j + 3) - 1) : s[q] = "\n"

\* Group 1 of CODE_FENCE_PATTERN, which starts at c0 and ends before the
\* first of ends.
FenceInner(s, c0, ends) ==
    IF ends = {} THEN NoMatch ELSE [ok |-> TRUE, inner |-> Slice(s, c0, Min(ends))]

\* CODE_FENCE_PATTERN matched at position i: a fence line with an optional
\* word tag, the lazy group 1, and the end.
CodeFenceAt(s, i) ==
    IF ~(AtLineStart(s, i) /\ LitAt(s, i, FENCE)) THEN NoMatch
    ELSE LET k == SkipWord(s, i + 3)
         IN  IF ~(k <= Len(s) /\ s[k] = "\n") THEN NoMatch
             ELSE FenceInner(s, k + 1, {j \in (k + 1)..Len(s) : IsFenceEnd(s, j)})

\* CODE_FENCE_PATTERN.search(content)
CodeFenceSearch(s) ==
    LET starts == {i \in 1..Len(s) : CodeFenceAt(s, i).ok}
    IN  IF starts = {} THEN NoMatch ELSE CodeFenceAt(s, Min(starts))

\* Group 1 of FALLBACK_PATTERN matching the whole of w, a string holding no
\* backtick and no newline: one character or more, a dot, word characters.
IsFileName(w) ==
    LET dots == {d \in 1..Len(w) : w[d] = "."}
    IN  /\ dots # {}
        /\ Max(dots) >= 2
        /\ Max(dots) < Len(w)
        /\ \A k \in (Max(dots) + 1)..Len(w) : IsWord(w[k])

\* The fenced block of FALLBACK_PATTERN: the word tag ends before k, group 2
\* ends before the first newline that a fence follows.
FallbackBody(s, i, name, k, ends) ==
    IF ~(k <= Len(s) /\ s[k] = "\n") \/ ends = {} THEN NoMatch
    ELSE [ok |-> TRUE, start |-> i, name |-> name, content |-> Slice(s, k + 1, Min(ends)),
          end |-> Min(ends) + 4]

\* FALLBACK_PATTERN from the backtick at i to the one at c, the whitespace
\* after which ends before r.
FallbackFrom(s, i, c, r) ==
    IF ~(/\ s[c] = BQ
         /\ IsFileName(Slice(s, i + 1, c))
         /\ r > c + 1
         /\ s[r - 1] = "\n"
         /\ LitAt(s, r, FENCE)) THEN NoMatch
    ELSE FallbackBody(s, i, Slice(s, i + 1, c), SkipWord(s, r + 3),
                      {e \in (SkipWord(s, r + 3) + 1)..Len(s) : LitAt(s, e, <<"\n">> \o FENCE)})

\* FALLBACK_PATTERN matched at position i.
FallbackAt(s, i) ==
    IF ~(i <= Len(s) /\ s[i] = BQ) THEN NoMatch
    ELSE LET stops == {c \in (i + 1)..Len(s) : s[c] = BQ \/ s[c] = "\n"}
         IN  IF stops = {} THEN NoMatch
             ELSE FallbackFrom(s, i, Min(stops), SkipSpace(s, Min(stops) + 1))

\* FALLBACK_PATTERN.finditer(text)
RECURSIVE FallbackMatches(_, _)
FallbackMatches(s, pos) ==
    LET starts == {i \in pos..Len(s) : FallbackAt(s, i).ok}
    IN  IF starts = {} THEN <<>>
        ELSE LET m == FallbackAt(s, Min(starts))
             IN  <<m>> \o FallbackMatches(s, m.end)

(***************************************************************************)
(* apply.py: parse_file_blocks                                             *)
(***************************************************************************)

\* A line printed to stderr: the message and what it is about.
Entry(msg, path, detail) == [msg |-> msg, path |-> path, detail |-> detail]

\* Lines 71-75: the inside of the code fence f when there is one, else the
\* content without its leading newline.
Unfence(raw, f) ==
    IF f.ok THEN f.inner
    ELSE IF StartsWith(raw, <<"\n">>) THEN Tail(raw) ELSE raw

\* Lines 79-80: one newline less at the end when there are two.
TrimBlank(content) ==
    IF EndsWith(content, <<"\n", "\n">>) THEN SubSeq(content, 1, Len(content) - 1) ELSE content

\* Lines 70-80: the content of one marker-delimited block.
BlockContent(raw) == TrimBlank(NormalizeNewlines(Unfence(raw, CodeFenceSearch(raw))))

\* Lines 66-68: a block whose two marker paths differ is skipped.
KeepBlock(m) == Strip(m.open) = Strip(m.close)

\* Lines 62-82: what one match adds to blocks.
BlockOf(m) ==
    IF KeepBlock(m) THEN << <<Strip(m.open), BlockContent(m.content)>> >> ELSE <<>>

\* Lines 66-67: what one match prints.
WarningOf(m) ==
    IF KeepBlock(m) THEN <<>>
    ELSE << Entry("Warning: mismatched markers", Strip(m.open), Strip(m.close)) >>

\* Lines 61-82: the blocks of the marker grammar, its matches being ms.
PrimaryBlocks(ms) == Concat([i \in 1..Len(ms) |-> BlockOf(ms[i])])

\* Lines 61-82: what the loop over the matches ms prints.
Warnings(ms) == Concat([i \in 1..Len(ms) |-> WarningOf(ms[i])])

\* Lines 89-90: the block of one match of the fallback grammar.
FallbackBlock(m) == <<Strip(m.name), m.content>>

\* Lines 89-90: the blocks of the fallback grammar.
FallbackBlocks(ms) == [i \in 1..Len(ms) |-> FallbackBlock(ms[i])]

\* Line 84: whether the fallback grammar is tried.
UseFallback(primary) == primary = <<>>

\* Lines 84-92: what parse_file_blocks returns and prints, the marker
\* grammar having given the blocks primary and printed warnings.
ParseEnd(text, primary, warnings) ==
    IF UseFallback(primary)
    THEN [returned |-> FallbackBlocks(FallbackMatches(text, 1)),
          printed  |-> Append(warnings, Entry("Trying fallback", <<>>, <<>>))]
    ELSE [returned |-> primary, printed |-> warnings]

\* Lines 60-92, the matches of the marker grammar being ms.
ParseMatches(text, ms) == ParseEnd(text, PrimaryBlocks(ms), Warnings(ms))

\* A call of parse_file_blocks: the list returned and the lines printed.
ParseRun(text) == ParseMatches(text, FileBlockMatches(text, 1))

parse_file_blocks(text) == ParseRun(text).returned

\* Lines 66-68 and 88: what parse_file_blocks prints.
ParseLog(text) == ParseRun(text).printed

(***************************************************************************)
(* os.path (posixpath)                                                     *)
(***************************************************************************)

SEP == "/"

\* The working directory of the process, against which abspath resolves.
Cwd == <<"/", "w">>

isabs(p) == StartsWith(p, <<SEP>>)

\* os.path.join(a, b)
join(a, b) ==
    IF isabs(b) THEN b
    ELSE IF a = <<>> \/ EndsWith(a, <<SEP>>) THEN a \o b
    ELSE a \o <<SEP>> \o b

\* The loop of normpath over the components: the kept components.
RECURSIVE NormComps(_, _, _)
NormComps(comps, rooted, acc) ==
    IF comps = <<>> THEN acc
    ELSE LET comp == Head(comps)
         IN  IF comp = <<>> \/ comp = <<".">> THEN NormComps(Tail(comps), rooted, acc)
             ELSE IF \/ comp # <<".", ".">>
                     \/ (~rooted /\ acc = <<>>)
                     \/ (acc # <<>> /\ acc[Len(acc)] = <<".", ".">>)
                  THEN NormComps(Tail(comps), rooted, Append(acc, comp))
             ELSE IF acc # <<>> THEN NormComps(Tail(comps), rooted, SubSeq(acc, 1, Len(acc) - 1))
             ELSE NormComps(Tail(comps), rooted, acc)

\* os.path.normpath(path)
normpath(path) ==
    IF path = <<>> THEN <<".">>
    ELSE LET slashes == IF ~StartsWith(path, <<SEP>>) THEN 0
                        ELSE IF StartsWith(path, <<SEP, SEP>>) /\ ~StartsWith(path, <<SEP, SEP, SEP>>)
                             THEN 2 ELSE 1
             comps   == NormComps(Split(path, SEP), slashes > 0, <<>>)
             out     == [k \in 1..slashes |-> SEP] \o Join(<<SEP>>, comps)
         IN  IF out = <<>> THEN <<".">> ELSE out

\* os.path.abspath(path)
abspath(path) == normpath(IF isabs(path) THEN path ELSE join(Cwd, path))

\* str.rfind of one character: the last position of it, 0 when there is none.
RFind(s, c) ==
    LET at == {i \in 1..Len(s) : s[i] = c}
    IN  IF at = {} THEN 0 ELSE Max(at)

\* os.path.basename(p)
basename(p) == Slice(p, RFind(p, SEP) + 1, Len(p) + 1)

\* str.rstrip("/")
RECURSIVE RStripSep(_)
RStripSep(s) ==
    IF s # <<>> /\ s[Len(s)] = SEP THEN RStripSep(SubSeq(s, 1, Len(s) - 1)) ELSE s

\* os.path.dirname(p)
dirname(p) ==
    LET head == Slice(p, 1, RFind(p, SEP) + 1)
    IN  IF head # <<>> /\ \E i \in 1..Len(head) : head[i] # SEP THEN RStripSep(head) ELSE head

\* os.path.splitext(p)[1]: the extension, from the last dot of the last
\* component, unless only dots precede that dot in the component.
splitext(p) ==
    LET sepIndex == RFind(p, SEP)
        dotIndex == RFind(p, ".")
    IN  IF /\ dotIndex > sepIndex
           /\ \E k \in (sepIndex + 1)..(dotIndex - 1) : p[k] # "."
        THEN Slice(p, dotIndex, Len(p) + 1)
        ELSE <<>>

\* str.lstrip(".")
RECURSIVE LStripDot(_)
LStripDot(s) == IF s # <<>> /\ s[1] = "." THEN LStripDot(Tail(s)) ELSE s

(***************************************************************************)
(* bundle.py                                                               *)
(***************************************************************************)

Digit(d) == <<"0", "1", "2", "3", "4", "5", "6", "7", "8", "9">>[d + 1]

\* str(n) for a natural number.
RECURSIVE IntToStr(_)
IntToStr(n) == IF n < 10 THEN <<Digit(n)>> ELSE IntToStr(n \div 10) \o <<Digit(n % 10)>>

\* format(n / unit, ".1f") for a power of two unit: n / unit is exact as a
\* float, and the format rounds its tenths half to even.
OneDecimal(n, unit) ==
    LET q      == (n * 10) \div unit
        r      == (n * 10) % unit
        tenths == IF 2 * r > unit THEN q + 1
                  ELSE IF 2 * r = unit THEN q + (q % 2)
                  ELSE q
    IN  IntToStr(tenths \div 10) \o <<".">> \o IntToStr(tenths % 10)

human_size(n) ==
    IF n < 1024 THEN IntToStr(n) \o <<" ", "B">>
    ELSE IF n < 1024 * 1024 THEN OneDecimal(n, 1024) \o <<" ", "K", "B">>
    ELSE OneDecimal(n, 1024 * 1024) \o <<" ", "M", "B">>

\* "  " * n
Indent(n) == [k \in 1..(2 * n) |-> " "]

\* Lines 127-132 of build_tree: the number of leading directories shared
\* with the previous path.
RECURSIVE CommonDirs(_, _, _)
CommonDirs(prev, parts, i) ==
    IF i < Len(prev) /\ i < Len(parts) - 1 /\ prev[i + 1] = parts[i + 1]
    THEN CommonDirs(prev, parts, i + 1)
    ELSE i

\* Lines 125-137 of build_tree: the lines of the files from index k on.
RECURSIVE TreeLines(_, _, _)
TreeLines(files, k, prev) ==
    IF k > Len(files) THEN <<>>
    ELSE LET parts  == Split(files[k][1], SEP)
             common == CommonDirs(prev, parts, 0)
             dirs   == [i \in 1..(Len(parts) - 1 - common) |->
                           Indent(common + i - 1) \o parts[common + i] \o <<SEP>>]
             leaf   == Indent(Len(parts) - 1) \o parts[Len(parts)]
         IN  dirs \o <<leaf>> \o TreeLines(files, k + 1, parts)

build_tree(files) == Join(<<"\n">>, TreeLines(files, 1, <<>>))

\* len(c.encode("utf-8")): every character of the model is one byte.
Utf8Len(c) == Len(c)

RECURSIVE TotalSize(_)
TotalSize(files) == IF files = <<>> THEN 0 ELSE Utf8Len(files[1][2]) + TotalSize(Tail(files))

\* HEADER_TEMPLATE, line 37.
HEADER_TITLE ==
    <<"=", "=", "=", "=", "=", " ", "P", "R", "O", "J", "E", "C", "T", " ", "B", "U", "N",
       "D", "L", "E", " ", "=", "=", "=", "=", "=", "\n">>

\* HEADER_TEMPLATE, lines 41-52.
HEADER_INSTRUCTIONS ==
    <<"\n">>
 \o <<"W", "h", "e", "n", " ", "y", "o", "u", " ", "r", "e", "s", "p", "o", "n", "d", " ",
       "w", "i", "t", "h", " ", "m", "o", "d", "i", "f", "i", "e", "d", " ", "f", "i", "l",
       "e", "s", ",", " ", "u", "s", "e", " ", "E", "X", "A", "C", "T", "L", "Y", " ", "t",
       "h", "i", "s", " ", "f", "o", "r", "m", "a", "t", " ", "f", "o", "r", " ", "e", "a",
       "c", "h", " ", "f", "i", "l", "e", ":", "\n">>
 \o <<"\n">>
 \o <<" ", " ", "=", "=", "=", "=", "=", " ", "F", "I", "L", "E", ":", " ", "p", "a", "t",
       "h", "/", "t", "o", "/", "f", "i", "l", "e", ".", "p", "y", " ", "=", "=", "=", "=",
       "=", "\n">>
 \o <<" ", " ", BQ, BQ, BQ, "\n">>
 \o <<" ", " ", "<", "f", "u", "l", "l", " ", "f", "i", "l", "e", " ", "c", "o", "n", "t",
       "e", "n", "t", "s", ">", "\n">>
 \o <<" ", " ", BQ, BQ, BQ, "\n">>
 \o <<" ", " ", "=", "=", "=", "=", "=", " ", "E", "N", "D", " ", "F", "I", "L", "E", ":",
       " ", "p", "a", "t", "h", "/", "t", "o", "/", "f", "i", "l", "e", ".", "p", "y", " ",
       "=", "=", "=", "=", "=", "\n">>
 \o <<"\n">>
 \o <<"I", "M", "P", "O", "R", "T", "A", "N", "T", ":", " ", "A", "l", "w", "a", "y", "s",
       " ", "w", "r", "a", "p", " ", "t", "h", "e", " ", "f", "i", "l", "e", " ", "c", "o",
       "n", "t", "e", "n", "t", "s", " ", "i", "n", " ", BQ, BQ, BQ, " ", "c", "o", "d",
       "e", " ", "f", "e", "n", "c", "e", "s", " ", "a", "s", " ", "s", "h", "o", "w", "n",
       " ", "a", "b", "o", "v", "e", ".", "\n">>
 \o <<"O", "n", "l", "y", " ", "i", "n", "c", "l", "u", "d", "e", " ", "f", "i", "l", "e",
       "s", " ", "y", "o", "u", " ", "h", "a", "v", "e", " ", "c", "h", "a", "n", "g", "e",
       "d", ".", " ", "D", "o", " ", "n", "o", "t", " ", "i", "n", "c", "l", "u", "d", "e",
       " ", "u", "n", "c", "h", "a", "n", "g", "e", "d", " ", "f", "i", "l", "e", "s", ".",
       "\n">>
 \o <<"=", "=", "=", "=", "=", " ", "E", "N", "D", " ", "I", "N", "S", "T", "R", "U", "C",
       "T", "I", "O", "N", "S", " ", "=", "=", "=", "=", "=", "\n">>

\* HEADER_TEMPLATE.format(project_name, file_count, total_size)
Header(name, count, size) ==
    HEADER_TITLE
    \o <<"P", "r", "o", "j", "e", "c", "t", ":", " ">> \o name \o <<"\n">>
    \o <<"F", "i", "l", "e", "s", ":", " ">> \o IntToStr(count) \o <<"\n">>
    \o <<"T", "o", "t", "a", "l", " ", "s", "i", "z", "e", ":", " ">> \o size \o <<"\n">>
    \o HEADER_INSTRUCTIONS

\* Lines 163-164: the content ends with a newline.
EnsureNewline(content) == IF EndsWith(content, <<"\n">>) THEN content ELSE content \o <<"\n">>

\* Lines 162-171: the block of one file.
FileBlock(rel_path, content) ==
    EQ5 \o <<" ">> \o FILE_COLON \o <<" ">> \o rel_path \o <<" ">> \o EQ5 \o <<"\n">>
    \o FENCE \o LStripDot(splitext(rel_path)) \o <<"\n">>
    \o EnsureNewline(content)
    \o FENCE \o <<"\n">>
    \o EQ5 \o <<" ">> \o END_FILE_COLON \o <<" ">> \o rel_path \o <<" ">> \o EQ5

build_bundle(root, files) ==
    LET name  == basename(abspath(root))
        total == TotalSize(files)
        parts == << Header(name, Len(files), human_size(total)),
                    EQ5 \o <<" ", "T", "R", "E", "E", " ">> \o EQ5,
                    build_tree(files),
                    EQ5 \o <<" ", "E", "N", "D", " ", "T", "R", "E", "E", " ">> \o EQ5 \o <<"\n">> >>
                 \o [k \in 1..Len(files) |-> FileBlock(files[k][1], files[k][2])]
    IN  Join(<<"\n">>, parts)

(***************************************************************************)
(* The filesystem.  A path that exists maps to its node; the data of a     *)
(* file are its bytes, one character each.                                 *)
(***************************************************************************)

Dir == [kind |-> "dir", data |-> <<>>, readable |-> TRUE]

File(data) == [kind |-> "file", data |-> data, readable |-> TRUE]

Unreadable(data) == [kind |-> "file", data |-> data, readable |-> FALSE]

\* A byte that is not valid UTF-8, and the character U+FFFD that
\* errors="replace" decodes it to.
BadByte == "\\xff"

Replacement == "\\ufffd"

exists(fsys, p) == p \in DOMAIN fsys

isdir(fsys, p) == exists(fsys, p) /\ fsys[p].kind = "dir"

\* open(path, "r", encoding="utf-8", errors="replace").read(): universal
\* newlines, undecodable bytes replaced.
ReadText(data) ==
    LET nl == NormalizeNewlines(data)
    IN  [i \in 1..Len(nl) |-> IF nl[i] = BadByte THEN Replacement ELSE nl[i]]

\* The filesystem without path p.
Remove(fsys, p) == [q \in DOMAIN fsys \ {p} |-> fsys[q]]

\* The filesystem with path p holding node.
Put(fsys, p, node) == [q \in DOMAIN fsys \cup {p} |-> IF q = p THEN node ELSE fsys[q]]

\* The directory and its ancestors, nearest last, that do not exist.
RECURSIVE MissingDirs(_, _)
MissingDirs(fsys, d) ==
    IF d = <<>> \/ exists(fsys, d) \/ dirname(d) = d THEN <<>>
    ELSE Append(MissingDirs(fsys, dirname(d)), d)

RECURSIVE PutDirs(_, _)
PutDirs(fsys, ds) == IF ds = <<>> THEN fsys ELSE PutDirs(Put(fsys, Head(ds), Dir), Tail(ds))

\* os.makedirs(d) can succeed: the nearest existing ancestor is a directory.
CanMakeDirs(fsys, d) ==
    LET missing == MissingDirs(fsys, d)
    IN  missing # <<>> /\ isdir(fsys, dirname(missing[1]))

\* tempfile.mkstemp(dir=d, prefix=".tmp_"): a name that does not exist.
TmpPrefix == <<".", "t", "m", "p", "_">>

TmpName(fsys, d) ==
    LET name(k) == join(d, TmpPrefix \o IntToStr(k))
        free    == {k \in 0..Cardinality(DOMAIN fsys) : ~exists(fsys, name(k))}
    IN  name(Min(free))

IsTmp(p) == StartsWith(basename(p), TmpPrefix)

(***************************************************************************)
(* apply.py: validate_path and the planning of one block                   *)
(***************************************************************************)

\* validate_path with its three checks left out.
validate_path_unchecked(rel_path, project_root) ==
    [ok |-> TRUE, why |-> "",
     full_path |-> abspath(join(project_root, normpath(rel_path)))]

validate_path(rel_path, project_root) ==
    IF isabs(rel_path)
    THEN [ok |-> FALSE, why |-> "absolute path", full_path |-> <<>>]
    ELSE LET normalized == normpath(rel_path)
         IN  IF StartsWith(normalized, <<".", ".">>)
             THEN [ok |-> FALSE, why |-> "path traversal", full_path |-> <<>>]
             ELSE LET full_path == abspath(join(project_root, normalized))
                      abs_root  == abspath(project_root)
                  IN  IF ~StartsWith(full_path, abs_root \o <<SEP>>) /\ full_path # abs_root
                      THEN [ok |-> FALSE, why |-> "outside project root", full_path |-> <<>>]
                      ELSE [ok |-> TRUE, why |-> "", full_path |-> full_path]

\* str.splitlines(): the lines of s without their line ends.
RECURSIVE SplitLines(_)
SplitLines(s) ==
    LET brk == {i \in 1..Len(s) : s[i] \in {"\n", "\r", "\f"}}
    IN  IF s = <<>> THEN <<>>
        ELSE IF brk = {} THEN <<s>>
        ELSE LET b    == Min(brk)
                 next == IF LitAt(s, b, <<"\r", "\n">>) THEN b + 2 ELSE b + 1
             IN  <<Slice(s, 1, b)>> \o SplitLines(Slice(s, next, Len(s) + 1))

\* Line 208: every line of a new file, as an addition.
AddedLines(new_content) ==
    LET ls == SplitLines(new_content)
    IN  [i \in 1..Len(ls) |-> <<"+">> \o ls[i] \o <<"\n">>]

\* compute_diff: the lines difflib.unified_diff yields for these arguments;
\* the library call is kept as a term over its arguments.
compute_diff(rel_path, old, new) ==
    << [unified_diff |-> <<old, new>>,
        fromfile |-> <<"a", "/">> \o rel_path, tofile |-> <<"b", "/">> \o rel_path] >>

Change(rel_path, status, diff_lines, new_content, full_path) ==
    [rel_path |-> rel_path, status |-> status, diff_lines |-> diff_lines,
     new_content |-> new_content, full_path |-> full_path]

\* Lines 200-209: the Change of a block whose path was accepted.  Opening a
\* directory or a file without read permission raises OSError, which main
\* does not catch.
PlanChange(fsys, rel_path, new_content, full_path) ==
    IF exists(fsys, full_path)
    THEN IF fsys[full_path].kind = "dir" \/ ~fsys[full_path].readable
         THEN [raised |-> TRUE, change |-> <<>>]
         ELSE LET old_content == ReadText(fsys[full_path].data)
              IN  IF old_content = new_content
                  THEN [raised |-> FALSE,
                        change |-> Change(rel_path, "unchanged", <<>>, new_content, full_path)]
                  ELSE [raised |-> FALSE,
                        change |-> Change(rel_path, "modified",
                                          compute_diff(rel_path, old_content, new_content),
                                          new_content, full_path)]
    ELSE [raised |-> FALSE,
          change |-> Change(rel_path, "added", AddedLines(new_content), new_content, full_path)]

(***************************************************************************)
(* Inputs                                                                  *)
(***************************************************************************)

\* The most blocks in an input text of apply.
MaxBlocks == 2

\* The most files in a bundle.
MaxFiles == 2

\* The most pieces in a text given to parse_file_blocks alone.
MaxPieces == 3

\* The most calls of the operating system that fail in one run.
MaxFaults == 2

Root == <<"/", "r">>

A_TXT == <<"a", ".", "t", "x", "t">>

B_TXT == <<"b", ".", "t", "x", "t">>

C_PY == <<"c", ".", "p", "y">>

D_N_TXT == <<"d", "/", "n", ".", "t", "x", "t">>

U_TXT == <<"u", ".", "t", "x", "t">>

C_TXT == <<"c", ".", "t", "x", "t">>

X_LINE == <<"x", "\n">>

Y_LINE == <<"y", "\n">>

\* The project tree before apply runs.
Fs0 ==
    (<<"/">> :> Dir) @@ (Root :> Dir)
    @@ (join(Root, A_TXT) :> File(X_LINE))
    @@ (join(Root, U_TXT) :> Unreadable(X_LINE))
    @@ (join(Root, C_TXT) :> File(<<"x", "\r", "\n">>))

\* The project_dir arguments: the root, a file, a path that does not exist.
ProjectDirs == {Root, join(Root, A_TXT), <<"/", "q">>}

\* The blocks an input text of apply is made of: path and content.
ApplyBlocks ==
    { <<A_TXT, X_LINE>>, <<A_TXT, Y_LINE>>, <<D_N_TXT, Y_LINE>>,
      <<<<".", ".", "/", "e">>, X_LINE>>, <<<<"/", "e", "t", "c", "/", "p">>, X_LINE>>,
      <<<<".">>, X_LINE>>, <<U_TXT, X_LINE>>, <<C_TXT, X_LINE>> }

SeqsUpTo(S, n) == UNION {[1..k -> S] : k \in 0..n}

\* A text in the format the bundle header asks for: one block per entry.
RenderBlocks(l) == Join(<<"\n">>, [k \in 1..Len(l) |-> FileBlock(l[k][1], l[k][2])])

ApplyTexts == {RenderBlocks(l) : l \in SeqsUpTo(ApplyBlocks, MaxBlocks)}

\* The blocks of the texts a commit is followed on: two contents for an
\* existing file, one of them the content it holds, and two contents for a
\* file to create in a directory to create.
CommitBlocks ==
    { <<A_TXT, X_LINE>>, <<A_TXT, Y_LINE>>, <<D_N_TXT, Y_LINE>>, <<D_N_TXT, X_LINE>> }

CommitTexts == {RenderBlocks(l) : l \in SeqsUpTo(CommitBlocks, MaxBlocks)}

\* What the user types at the prompt.
Answers == {<<"y">>, <<"Y">>, <<"y", " ">>, <<"n">>, <<>>}

\* str.lower() on the letters an answer holds.
Lower(s) == [i \in 1..Len(s) |-> IF s[i] = "Y" THEN "y" ELSE IF s[i] = "N" THEN "n" ELSE s[i]]

\* The files of a bundle: paths in the order of the walk, each path once.
BundlePaths ==
    << <<"a", ".", "p", "y">>, <<"e", ".", "c", "+", "+">>,
       <<"d", "/", "c", ".", "t", "x", "t">> >>

BundleContents ==
    { <<>>, <<"x">>, X_LINE, <<"x", "\n", "\n">>, <<"x", "\n", "y", "\n">>,
      FENCE \o <<"\n">>, <<"x", "\n">> \o FENCE \o <<"p", "y", "\n", "y", "\n">>,
      EQ5 \o <<" ">> \o END_FILE_COLON \o <<" ", "a", ".", "p", "y", " ">> \o EQ5 \o <<"\n">>,
      EQ5 \o <<" ">> \o FILE_COLON \o <<" ", "b", " ">> \o EQ5 \o <<"\n">> }

FileLists ==
    { l \in SeqsUpTo((1..Len(BundlePaths)) \X BundleContents, MaxFiles) :
        \A i \in 1..(Len(l) - 1) : l[i][1] < l[i + 1][1] }

FilesOf(l) == [k \in 1..Len(l) |-> <<BundlePaths[l[k][1]], l[k][2]>>]

\* The pieces of a text given to parse_file_blocks: a block of the marker
\* grammar (fenced or not, with open and close paths), an inline file name
\* with a fenced block, a line of prose, and a marker block around an inline
\* file name with a fenced block.
Pieces ==
    { [kind |-> "fenced", open |-> A_TXT, close |-> A_TXT, body |-> X_LINE],
      [kind |-> "fenced", open |-> A_TXT, close |-> B_TXT, body |-> X_LINE],
      [kind |-> "plain", open |-> B_TXT, close |-> B_TXT, body |-> Y_LINE],
      [kind |-> "inline", open |-> C_PY, close |-> C_PY, body |-> <<"z">>],
      [kind |-> "prose", open |-> <<>>, close |-> <<>>, body |-> <<"h", "i", "\n">>],
      [kind |-> "wrapped", open |-> A_TXT, close |-> B_TXT, body |-> <<"z">>] }

InlinePair(name, body) ==
    <<BQ>> \o name \o <<BQ, "\n">> \o FENCE \o <<"\n">> \o body \o <<"\n">> \o FENCE \o <<"\n">>

OpenMarker(p) == EQ5 \o <<" ">> \o FILE_COLON \o <<" ">> \o p \o <<" ">> \o EQ5 \o <<"\n">>

CloseMarker(p) == EQ5 \o <<" ">> \o END_FILE_COLON \o <<" ">> \o p \o <<" ">> \o EQ5 \o <<"\n">>

RenderPiece(p) ==
    CASE p.kind = "fenced"  -> OpenMarker(p.open) \o FENCE \o <<"\n">> \o p.body \o FENCE \o <<"\n">>
                               \o CloseMarker(p.close)
      [] p.kind = "plain"   -> OpenMarker(p.open) \o p.body \o CloseMarker(p.close)
      [] p.kind = "inline"  -> InlinePair(p.open, p.body)
      [] p.kind = "prose"   -> p.body
      [] p.kind = "wrapped" -> OpenMarker(p.open) \o InlinePair(C_PY, p.body) \o CloseMarker(p.close)

RenderPieces(ps) == Concat([k \in 1..Len(ps) |-> RenderPiece(ps[k])])

(***************************************************************************)
(* State                                                                   *)
(***************************************************************************)

VARIABLES
    pc,         \* where the program stands
    args,       \* apply: project_dir, dry_run, no_confirm
    fs,         \* the filesystem
    files,      \* bundle: the (rel_path, content) entries given to build_bundle
    pieces,     \* the pieces the text given to parse_file_blocks is made of
    text,       \* the bundle, or the input text of apply
    blocks,     \* the result of parse_file_blocks
    changes,    \* apply: the planned changes
    idx,        \* apply: the index of the planning loop, then of the commit loop
    answer,     \* apply: what input() gave at the prompt
    tmp,        \* write_file_atomic: the temporary file, <<>> when there is none
    faults,     \* the calls of the operating system that have failed so far
    writes,     \* apply: the indexes of the changes write_file_atomic was called for
    applied,    \* apply: the files written
    exit_code,  \* the exit status, -1 while the program runs
    log         \* what was printed to stderr

vars == <<pc, args, fs, files, pieces, text, blocks, changes, idx, answer, tmp, faults,
          writes, applied, exit_code, log>>

NoAnswer == [kind |-> "none", raw |-> <<>>]

NoArgs == [project_dir |-> <<>>, dry_run |-> FALSE, no_confirm |-> FALSE]

\* The state before main, build_bundle or parse_file_blocks starts.
Start(p, a, f, ps, t) ==
    /\ pc = p
    /\ args = a
    /\ fs = Fs0
    /\ files = f
    /\ pieces = ps
    /\ text = t
    /\ blocks = <<>>
    /\ changes = <<>>
    /\ idx = 1
    /\ answer = NoAnswer
    /\ tmp = <<>>
    /\ faults = <<>>
    /\ writes = <<>>
    /\ applied = 0
    /\ exit_code = -1
    /\ log = <<>>

(***************************************************************************)
(* bundle.py then apply.py: a bundle is built and parsed back              *)
(***************************************************************************)

InitRoundTrip == \E l \in FileLists : Start("bundle", NoArgs, FilesOf(l), <<>>, <<>>)

Bundle ==
    /\ pc = "bundle"
    /\ text' = build_bundle(Root, files)
    /\ pc' = "parse_text"
    /\ UNCHANGED <<args, fs, files, pieces, blocks, changes, idx, answer, tmp, faults,
                   writes, applied, exit_code, log>>

\* parse_file_blocks(text)
ParseText ==
    /\ pc = "parse_text"
    /\ \E r \in {ParseRun(text)} :
          /\ blocks' = r.returned
          /\ log' = r.printed
    /\ pc' = "parsed"
    /\ UNCHANGED <<args, fs, files, pieces, text, changes, idx, answer, tmp, faults,
                   writes, applied, exit_code>>

NextRoundTrip == Bundle \/ ParseText

SpecRoundTrip == InitRoundTrip /\ [][NextRoundTrip]_vars

InitParse ==
    \E ps \in SeqsUpTo(Pieces, MaxPieces) : Start("parse_text", NoArgs, <<>>, ps, RenderPieces(ps))

NextParse == ParseText

SpecParse == InitParse /\ [][NextParse]_vars

(***************************************************************************)
(* apply.py: main                                                          *)
(***************************************************************************)

Init ==
    \E d \in ProjectDirs, dry \in BOOLEAN, nc \in BOOLEAN :
        Start("main", [project_dir |-> d, dry_run |-> dry, no_confirm |-> nc], <<>>, <<>>, <<>>)

\* sys.exit(code) after a message, or the end of main.
Exit(code, entry) ==
    /\ pc' = "exit"
    /\ exit_code' = code
    /\ log' = Append(log, entry)

\* Lines 169-173.
CheckProjectDir ==
    /\ pc = "main"
    /\ IF isdir(fs, args.project_dir)
       THEN pc' = "read" /\ UNCHANGED <<exit_code, log>>
       ELSE Exit(1, Entry("Error: not a directory", args.project_dir, <<>>))
    /\ UNCHANGED <<args, fs, files, pieces, text, blocks, changes, idx, answer, tmp, faults,
                   writes, applied>>

\* Lines 175-186: the text comes from the file of --from-file, read with
\* universal newlines, or from the clipboard.
ReadInput ==
    /\ pc = "read"
    /\ \/ /\ Exit(1, Entry("Error reading file", <<>>, <<>>))
          /\ UNCHANGED text
       \/ /\ \E t \in ApplyTexts : text' = NormalizeNewlines(t)
          /\ pc' = "parse"
          /\ UNCHANGED <<exit_code, log>>
       \/ /\ Exit(1, Entry("Error: clipboard is empty or unreadable", <<>>, <<>>))
          /\ UNCHANGED text
       \/ /\ \E t \in ApplyTexts \ {<<>>} : text' = t
          /\ pc' = "parse"
          /\ UNCHANGED <<exit_code, log>>
    /\ UNCHANGED <<args, fs, files, pieces, blocks, changes, idx, answer, tmp, faults,
                   writes, applied>>

\* Lines 188-192.
MainParse ==
    /\ pc = "parse"
    /\ \E r \in {ParseRun(text)} :
          /\ blocks' = r.returned
          /\ IF r.returned = <<>>
             THEN /\ pc' = "exit"
                  /\ exit_code' = 1
                  /\ log' = Append(log \o r.printed, Entry("No file blocks found", <<>>, <<>>))
             ELSE /\ pc' = "plan"
                  /\ log' = log \o r.printed
                  /\ UNCHANGED exit_code
    /\ UNCHANGED <<args, fs, files, pieces, text, changes, idx, answer, tmp, faults,
                   writes, applied>>

\* Lines 195-209: one turn of the planning loop.  An exception main does not
\* catch ends the program with a traceback and exit status 1.
PlanStep ==
    /\ pc = "plan"
    /\ idx <= Len(blocks)
    /\ LET rel_path    == blocks[idx][1]
           new_content == blocks[idx][2]
           v           == validate_path(rel_path, abspath(args.project_dir))
           p           == PlanChange(fs, rel_path, new_content, v.full_path)
       IN  IF ~v.ok
           THEN /\ log' = Append(log, Entry("Rejected", rel_path, <<>>))
                /\ idx' = idx + 1
                /\ UNCHANGED <<pc, changes, exit_code>>
           ELSE IF p.raised
           THEN /\ Exit(1, Entry("Traceback", rel_path, <<>>))
                /\ UNCHANGED <<changes, idx>>
           ELSE /\ changes' = Append(changes, p.change)
                /\ idx' = idx + 1
                /\ UNCHANGED <<pc, exit_code, log>>
    /\ UNCHANGED <<args, fs, files, pieces, text, blocks, answer, tmp, faults, writes, applied>>

\* Lines 216-226: whether any change is not unchanged.
has_changes(chs) == \E i \in 1..Len(chs) : chs[i].status # "unchanged"

\* Review without the exit of --dry-run.
ReviewNoDryRun ==
    /\ pc = "plan"
    /\ idx > Len(blocks)
    /\ IF changes = <<>>
       THEN Exit(1, Entry("No valid changes to apply", <<>>, <<>>)) /\ UNCHANGED idx
       ELSE IF ~has_changes(changes)
       THEN Exit(0, Entry("All files are unchanged", <<>>, <<>>)) /\ UNCHANGED idx
       ELSE /\ pc' = IF args.no_confirm THEN "commit" ELSE "confirm"
            /\ idx' = 1
            /\ UNCHANGED <<exit_code, log>>
    /\ UNCHANGED <<args, fs, files, pieces, text, blocks, changes, answer, tmp, faults,
                   writes, applied>>

\* Lines 211-249: after the planning loop, up to the prompt or the commit.
Review ==
    /\ pc = "plan"
    /\ idx > Len(blocks)
    /\ IF changes = <<>>
       THEN Exit(1, Entry("No valid changes to apply", <<>>, <<>>)) /\ UNCHANGED idx
       ELSE IF ~has_changes(changes)
       THEN Exit(0, Entry("All files are unchanged", <<>>, <<>>)) /\ UNCHANGED idx
       ELSE IF args.dry_run
       THEN Exit(0, Entry("Dry run, no files were modified", <<>>, <<>>)) /\ UNCHANGED idx
       ELSE /\ pc' = IF args.no_confirm THEN "commit" ELSE "confirm"
            /\ idx' = 1
            /\ UNCHANGED <<exit_code, log>>
    /\ UNCHANGED <<args, fs, files, pieces, text, blocks, changes, answer, tmp, faults,
                   writes, applied>>

\* The comparison of line 255 made with n instead: any answer but n accepts.
AcceptsUnlessNo(raw) == Lower(Strip(raw)) # <<"n">>

\* Line 255: the answer that lets the commit start.
Accepts(raw) == Lower(Strip(raw)) = <<"y">>

\* Lines 250-257: the prompt.
Confirm ==
    /\ pc = "confirm"
    /\ \/ \E a \in Answers :
            /\ answer' = [kind |-> "text", raw |-> a]
            /\ IF Accepts(a)
               THEN pc' = "commit" /\ UNCHANGED <<exit_code, log>>
               ELSE Exit(1, Entry("Aborted", <<>>, <<>>))
       \/ \E k \in {"EOFError", "KeyboardInterrupt"} :
            /\ answer' = [kind |-> k, raw |-> <<>>]
            /\ Exit(1, Entry("Aborted", <<>>, <<>>))
    /\ UNCHANGED <<args, fs, files, pieces, text, blocks, changes, idx, tmp, faults,
                   writes, applied>>

\* The test of lines 261-262 made against added: only new files are written.
SkipsAllButAdded(change) == change.status # "added"

\* The commit loop without the test of lines 261-262.
SkipsNothing(change) == FALSE

\* Lines 261-262: the commit loop passes an unchanged file.
SkipsWrite(change) == change.status = "unchanged"

CommitSkip ==
    /\ pc = "commit"
    /\ idx <= Len(changes)
    /\ SkipsWrite(changes[idx])
    /\ idx' = idx + 1
    /\ UNCHANGED <<pc, args, fs, files, pieces, text, blocks, changes, answer, tmp, faults,
                   writes, applied, exit_code, log>>

\* Line 264: write_file_atomic is called.
CommitBegin ==
    /\ pc = "commit"
    /\ idx <= Len(changes)
    /\ ~SkipsWrite(changes[idx])
    /\ writes' = Append(writes, idx)
    /\ pc' = "makedirs"
    /\ UNCHANGED <<args, fs, files, pieces, text, blocks, changes, idx, answer, tmp, faults,
                   applied, exit_code, log>>

\* Lines 267-268: the exception of write_file_atomic is reported and the
\* loop goes on.
Reported ==
    /\ log' = Append(log, Entry("Error writing", changes[idx].rel_path, <<>>))
    /\ idx' = idx + 1
    /\ pc' = "commit"
    /\ tmp' = <<>>

\* A call of the operating system fails: it does when it cannot succeed,
\* and may otherwise while fewer than MaxFaults calls have failed.
Fails(call, possible) ==
    /\ possible => Len(faults) < MaxFaults
    /\ faults' = Append(faults, call)

\* Lines 144-146.
MakeDirs ==
    /\ pc = "makedirs"
    /\ LET directory == dirname(changes[idx].full_path)
       IN  IF directory # <<>> /\ ~exists(fs, directory)
           THEN \/ /\ CanMakeDirs(fs, directory)
                   /\ fs' = PutDirs(fs, MissingDirs(fs, directory))
                   /\ pc' = "mkstemp"
                   /\ UNCHANGED <<idx, tmp, faults, log>>
                \/ /\ Fails("makedirs", CanMakeDirs(fs, directory))
                   /\ \E k \in 0..(Len(MissingDirs(fs, directory)) - 1) :
                        /\ CanMakeDirs(fs, directory) \/ k = 0
                        /\ fs' = PutDirs(fs, SubSeq(MissingDirs(fs, directory), 1, k))
                   /\ Reported
           ELSE /\ pc' = "mkstemp"
                /\ UNCHANGED <<fs, idx, tmp, faults, log>>
    /\ UNCHANGED <<args, files, pieces, text, blocks, changes, answer, writes, applied,
                   exit_code>>

\* Line 148.
MkStemp ==
    /\ pc = "mkstemp"
    /\ LET directory == dirname(changes[idx].full_path)
       IN  \/ /\ isdir(fs, directory)
              /\ tmp' = TmpName(fs, directory)
              /\ fs' = Put(fs, tmp', File(<<>>))
              /\ pc' = "write"
              /\ UNCHANGED <<idx, faults, log>>
           \/ /\ Fails("mkstemp", isdir(fs, directory))
              /\ Reported
              /\ UNCHANGED fs
    /\ UNCHANGED <<args, files, pieces, text, blocks, changes, answer, writes, applied,
                   exit_code>>

\* Lines 150-151: the content goes to the temporary file; a failed write
\* leaves a part of it there.
WriteTemp ==
    /\ pc = "write"
    /\ LET content == changes[idx].new_content
       IN  \/ /\ fs' = Put(fs, tmp, File(content))
              /\ pc' = "replace"
              /\ UNCHANGED faults
           \/ /\ Fails("write", TRUE)
              /\ \E n \in 0..Len(content) :
                    /\ n < Len(content) \/ n = 0
                    /\ fs' = Put(fs, tmp, File(SubSeq(content, 1, n)))
              /\ pc' = "cleanup"
    /\ UNCHANGED <<args, files, pieces, text, blocks, changes, idx, answer, tmp, writes,
                   applied, exit_code, log>>

\* Lines 152 and 265-266.
Replace ==
    /\ pc = "replace"
    /\ LET filepath == changes[idx].full_path
       IN  \/ /\ ~isdir(fs, filepath)
              /\ fs' = Put(Remove(fs, tmp), filepath, fs[tmp])
              /\ tmp' = <<>>
              /\ log' = Append(log, Entry("Wrote", changes[idx].rel_path, <<>>))
              /\ applied' = applied + 1
              /\ idx' = idx + 1
              /\ pc' = "commit"
              /\ UNCHANGED faults
           \/ /\ Fails("replace", ~isdir(fs, filepath))
              /\ pc' = "cleanup"
              /\ UNCHANGED <<fs, tmp, log, applied, idx>>
    /\ UNCHANGED <<args, files, pieces, text, blocks, changes, answer, writes, exit_code>>

\* The handler of lines 153-158 without os.unlink.
CleanupKeepsTemp ==
    /\ pc = "cleanup"
    /\ fs' = fs
    /\ Reported
    /\ UNCHANGED <<args, files, pieces, text, blocks, changes, answer, faults, writes,
                   applied, exit_code>>

\* Lines 153-158: the temporary file is removed, unless os.unlink fails
\* too, and the exception goes on to main.
Cleanup ==
    /\ pc = "cleanup"
    /\ \/ fs' = Remove(fs, tmp) /\ UNCHANGED faults
       \/ fs' = fs /\ Fails("unlink", TRUE)
    /\ Reported
    /\ UNCHANGED <<args, files, pieces, text, blocks, changes, answer, writes, applied,
                   exit_code>>

\* Line 270: the end of main.
CommitEnd ==
    /\ pc = "commit"
    /\ idx > Len(changes)
    /\ Exit(0, Entry("Applied", IntToStr(applied), <<>>))
    /\ UNCHANGED <<args, fs, files, pieces, text, blocks, changes, idx, answer, tmp, faults,
                   writes, applied>>

Next ==
    \/ CheckProjectDir
    \/ ReadInput
    \/ MainParse
    \/ PlanStep
    \/ Review
    \/ Confirm
    \/ CommitSkip
    \/ CommitBegin
    \/ MakeDirs
    \/ MkStemp
    \/ WriteTemp
    \/ Replace
    \/ Cleanup
    \/ CommitEnd

Spec == Init /\ [][Next]_vars

(***************************************************************************)
(* apply.py: main from line 188 on, the text read                          *)
(***************************************************************************)

InitCommit ==
    \E t \in CommitTexts, dry \in BOOLEAN, nc \in BOOLEAN :
        Start("parse", [project_dir |-> Root, dry_run |-> dry, no_confirm |-> nc],
              <<>>, <<>>, t)

NextCommit ==
    \/ MainParse
    \/ PlanStep
    \/ Review
    \/ Confirm
    \/ CommitSkip
    \/ CommitBegin
    \/ MakeDirs
    \/ MkStemp
    \/ WriteTemp
    \/ Replace
    \/ Cleanup
    \/ CommitEnd

SpecCommit == InitCommit /\ [][NextCommit]_vars

(***************************************************************************)
(* Properties                                                              *)
(***************************************************************************)

\* The message of the last line printed, "" when nothing was printed.
LastMsg == IF log = <<>> THEN "" ELSE log[Len(log)].msg

\* The number of lines printed with the message msg.
Printed(msg) == Cardinality({i \in 1..Len(log) : log[i].msg = msg})

\* The number of calls of the operating system named call that failed.
Failed(call) == Cardinality({i \in 1..Len(faults) : faults[i] = call})

\* The program is inside write_file_atomic.
InWrite == pc \in {"makedirs", "mkstemp", "write", "replace", "cleanup"}

\* The planning loop of main has treated every block.
Planned == pc \in {"confirm", "commit"} \/ InWrite \/ (pc = "exit" /\ idx > Len(blocks))

\* The indexes below n of the changes the commit loop has to write.
ToWrite(n) == SelectSeq([k \in 1..(n - 1) |-> k], LAMBDA k : changes[k].status # "unchanged")

\* The absolute project root, and the paths equal to it or nested under it.
AbsRoot == abspath(args.project_dir)

UnderRoot(p) == p = AbsRoot \/ StartsWith(p, AbsRoot \o <<SEP>>)

\* The paths of the filesystem that are not as they were before the run.
Touched == {p \in (DOMAIN fs) \cup (DOMAIN Fs0) : p \notin DOMAIN fs \/ p \notin DOMAIN Fs0 \/ fs[p] # Fs0[p]}

----------------------------------------------------------------------------

\* A content with the trailing newline build_bundle may add.
WithNewline(c) == IF c # <<>> /\ c[Len(c)] = "\n" THEN c ELSE c \o <<"\n">>

\* C1: parsing the bundle built from a list of file entries returns the
\* same paths in the same order with the same contents, a content that does
\* not end in a newline having gained one.
C1_RoundTrip ==
    pc = "parsed" =>
        blocks = [k \in 1..Len(files) |-> <<files[k][1], WithNewline(files[k][2])>>]

----------------------------------------------------------------------------

\* A path that has to be rejected: absolute, or starting with a
\* parent-directory escape once normalized, or resolving outside the root.
Escapes(rel_path) ==
    \/ isabs(rel_path)
    \/ StartsWith(normpath(rel_path), <<".", ".">>)
    \/ ~UnderRoot(abspath(join(AbsRoot, rel_path)))

\* The paths of the first n blocks that validate_path accepts, in order.
AcceptedPaths(n) ==
    LET at == SelectSeq([k \in 1..n |-> k],
                        LAMBDA k : validate_path(blocks[k][1], AbsRoot).ok)
    IN  [j \in 1..Len(at) |-> blocks[at[j]][1]]

RelPaths(chs) == [k \in 1..Len(chs) |-> chs[k].rel_path]

\* C2: every path given to write_file_atomic, and every path of the
\* filesystem the run touches, is the project root or nested under it; a
\* block whose path escapes yields no Change, and does not stop the blocks
\* validate_path accepts from being planned, in order, and, when the commit
\* loop runs to its end, from being written.
C2_PathSafety ==
    /\ \A k \in 1..Len(writes) : UnderRoot(changes[writes[k]].full_path)
    /\ \A p \in Touched : UnderRoot(p)
    /\ \A k \in 1..Len(changes) : ~Escapes(changes[k].rel_path)
    /\ pc = "plan" => RelPaths(changes) = AcceptedPaths(idx - 1)
    /\ pc \in {"confirm", "commit"} \/ InWrite => RelPaths(changes) = AcceptedPaths(Len(blocks))
    /\ LastMsg = "Applied" => writes = ToWrite(Len(changes) + 1)

\* C2 witness: a run that rejected a block, planned another block of the
\* same input and wrote it.
C2_Witness ==
    /\ pc = "exit"
    /\ LastMsg = "Applied"
    /\ applied > 0
    /\ \E k \in 1..Len(blocks) : Escapes(blocks[k][1])

----------------------------------------------------------------------------

\* The temporary files on disk.
TmpFiles == {p \in DOMAIN fs : IsTmp(p)}

\* The file at path p is as before the run, or holds the whole content of a
\* change that write_file_atomic was called for and reported as written.
Intact(p) ==
    \/ p \in DOMAIN Fs0 /\ p \in DOMAIN fs /\ fs[p] = Fs0[p]
    \/ /\ p \in DOMAIN fs
       /\ \E k \in 1..Len(writes) :
            /\ changes[writes[k]].full_path = p
            /\ fs[p] = File(changes[writes[k]].new_content)
            /\ \E i \in 1..Len(log) :
                  log[i].msg = "Wrote" /\ log[i].path = changes[writes[k]].rel_path

\* What C3 says besides the temporary files: a target is never partly
\* written and keeps its content when its write fails, each failed write is
\* reported once, and the commit loop goes on to every later change.
WriteFailuresContained ==
    /\ \A p \in Touched : fs[p].kind = "file" /\ ~IsTmp(p) => Intact(p)
    /\ \A p \in DOMAIN Fs0 : p \in DOMAIN fs
    /\ ~InWrite => Printed("Error writing") = Len(faults) - Failed("unlink")
    /\ ~InWrite => Printed("Error writing") + Printed("Wrote") = Len(writes)
    /\ pc = "commit" => writes = ToWrite(idx)
    /\ LastMsg = "Applied" => writes = ToWrite(Len(changes) + 1)

----------------------------------------------------------------------------

\* Without --no-confirm, something was written or the filesystem changed.
WroteSomething == ~args.no_confirm /\ (writes # <<>> \/ fs # Fs0)

\* The prompt was interrupted, or answered with an answer that is not a
\* yes, yes telling whether the answer given is one.
Refused(yes) ==
    /\ ~args.no_confirm
    /\ answer.kind # "none"
    /\ answer.kind = "text" => ~yes

\* The run stopped with exit code 1 and nothing written.
Aborted == pc = "exit" /\ exit_code = 1 /\ writes = <<>> /\ fs = Fs0

\* C4 as stated: without --no-confirm nothing is written before the prompt
\* was answered with y, and any other answer, or an interrupted prompt, ends
\* the run with exit code 1 and no write.
C4_OnlyLowercaseY ==
    /\ WroteSomething => answer = [kind |-> "text", raw |-> <<"y">>]
    /\ Refused(answer.raw = <<"y">>) => Aborted

\* C4 as amended: without --no-confirm nothing is written before the prompt
\* was answered with an answer that is y once surrounding whitespace is
\* removed and letters are lower-cased; any other answer, or an interrupted
\* prompt, ends the run with exit code 1 and no write.
C4_ConfirmFirst ==
    /\ WroteSomething => answer.kind = "text" /\ Lower(Strip(answer.raw)) = <<"y">>
    /\ Refused(Lower(Strip(answer.raw)) = <<"y">>) => Aborted

\* C4 witness: the prompt was answered with a capital Y and a file was
\* written.
C4_Witness ==
    /\ ~args.no_confirm
    /\ answer = [kind |-> "text", raw |-> <<"Y">>]
    /\ applied > 0

----------------------------------------------------------------------------

\* The Changes main plans for the first n blocks against the filesystem as
\* it was before the run, whatever --dry-run is.
RECURSIVE PlanOf(_)
PlanOf(n) ==
    IF n = 0 THEN <<>>
    ELSE LET v == validate_path(blocks[n][1], AbsRoot)
         IN  IF ~v.ok THEN PlanOf(n - 1)
             ELSE Append(PlanOf(n - 1),
                         PlanChange(Fs0, blocks[n][1], blocks[n][2], v.full_path).change)

\* C5: a run with --dry-run leaves the filesystem as it was, and the list
\* of Changes it computes is the one a run without --dry-run computes
\* before it commits: the list planned from the blocks and the filesystem
\* as it was before the run.
C5_DryRun ==
    /\ args.dry_run => fs = Fs0 /\ writes = <<>> /\ tmp = <<>> /\ ~InWrite
    /\ pc = "plan" => changes = PlanOf(idx - 1)
    /\ Planned => changes = PlanOf(Len(blocks))

\* C5 witness: a dry run that planned a modified file and ended.
C5_Witness ==
    /\ args.dry_run
    /\ pc = "exit"
    /\ LastMsg = "Dry run, no files were modified"
    /\ \E k \in 1..Len(changes) : changes[k].status = "modified"

----------------------------------------------------------------------------

\* Every planned Change has status unchanged.
AllUnchanged == changes # <<>> /\ \A k \in 1..Len(changes) : changes[k].status = "unchanged"

\* The content of the change equals the content of its target on disk.
SameOnDisk(change) ==
    /\ exists(Fs0, change.full_path)
    /\ Fs0[change.full_path].kind = "file"
    /\ ReadText(Fs0[change.full_path].data) = change.new_content

----------------------------------------------------------------------------

\* The messages of the cases that end the run with exit code 1.
ExitOneCases ==
    {"Error: not a directory", "Error reading file",
     "Error: clipboard is empty or unreadable", "No file blocks found",
     "No valid changes to apply", "Aborted"}

\* C7: the run ends with exit code 1 exactly when the project directory is
\* invalid, the input is empty or unreadable, no block is parsed, no Change
\* remains after path validation, or the prompt is declined or interrupted;
\* every other run ends with exit code 0.
C7_ExitCodes ==
    pc = "exit" =>
        /\ exit_code \in {0, 1}
        /\ exit_code = 1 <=> LastMsg \in ExitOneCases

----------------------------------------------------------------------------

\* The fallback grammar was tried.
TriedFallback == Printed("Trying fallback") > 0

\* The match f lies in the text of the match m.
Inside(f, m) == m.start <= f.start /\ f.end <= m.end

\* C8 for the matches ms of the marker grammar and fms of the fallback
\* grammar: no returned pair is taken from the text of a match whose two
\* paths differ, and the matches whose paths agree are returned.
DiscardedContributeNothing(ms, fms) ==
    /\ \A i \in 1..Len(ms) :
          Strip(ms[i].open) # Strip(ms[i].close) =>
              \A k \in 1..Len(fms) : TriedFallback => ~Inside(fms[k], ms[i])
    /\ \A i \in 1..Len(ms) :
          Strip(ms[i].open) = Strip(ms[i].close) =>
              \E k \in 1..Len(blocks) : blocks[k][1] = Strip(ms[i].open)

\* C8: a block of the marker grammar whose open path differs from its
\* close path contributes no (path, content) pair to the result of
\* parse_file_blocks, and the well-formed blocks of the text are returned.
C8_MismatchedDiscarded ==
    pc = "parsed" =>
        DiscardedContributeNothing(FileBlockMatches(text, 1), FallbackMatches(text, 1))

----------------------------------------------------------------------------

\* The pieces that are blocks of the marker grammar.
IsMarkerBlock(p) == p.kind \in {"fenced", "plain", "wrapped"}

\* The pairs of the marker blocks of ps whose two paths agree.
MarkerPairs(ps) ==
    LET at == SelectSeq([k \in 1..Len(ps) |-> k],
                        LAMBDA k : IsMarkerBlock(ps[k]) /\ ps[k].open = ps[k].close)
    IN  [j \in 1..Len(at) |-> <<ps[at[j]].open, ps[at[j]].body>>]

\* The inline file names with a fenced block among ps.
InlinePieces(ps) == SelectSeq(ps, LAMBDA p : p.kind = "inline")

\* C9: parse_file_blocks tries the fallback grammar if and only if the text
\* holds no block of the marker grammar, a block discarded for mismatched
\* paths counting as a block; when the text holds a marker block the result
\* holds no block of the fallback grammar; and a text with no marker block
\* and one inline file name with a fenced block gives that one block.
C9_FallbackSelection ==
    pc = "parsed" =>
        /\ TriedFallback <=> ~\E k \in 1..Len(pieces) : IsMarkerBlock(pieces[k])
        /\ (\E k \in 1..Len(pieces) : IsMarkerBlock(pieces[k])) => blocks = MarkerPairs(pieces)
        /\ (\A k \in 1..Len(pieces) : ~IsMarkerBlock(pieces[k])) /\ Len(InlinePieces(pieces)) = 1 =>
              blocks = << <<InlinePieces(pieces)[1].open, InlinePieces(pieces)[1].body>> >>

----------------------------------------------------------------------------

\* C10: every block is dropped with a reported rejection or yields one
\* Change, and planning goes on to all the blocks that remain, whatever the
\* path of a block is.
C10_PlanningGoesOn ==
    /\ pc = "plan" => Len(changes) + Printed("Rejected") = idx - 1
    /\ pc \notin {"main", "read", "parse", "plan"} =>
          Len(changes) + Printed("Rejected") = Len(blocks)

----------------------------------------------------------------------------

\* C11: a Change has status added exactly when its target does not exist,
\* status unchanged exactly when the target exists and holds byte for byte
\* the new content, and status modified otherwise; the Changes are those of
\* the accepted blocks, one each, in the order of the blocks.
C11_Classification ==
    /\ \A k \in 1..Len(changes) :
          /\ changes[k].status \in {"added", "unchanged", "modified"}
          /\ changes[k].status = "added" <=> ~exists(Fs0, changes[k].full_path)
          /\ changes[k].status = "unchanged" <=>
                /\ exists(Fs0, changes[k].full_path)
                /\ Fs0[changes[k].full_path] = File(changes[k].new_content)
    /\ pc = "plan" => RelPaths(changes) = AcceptedPaths(idx - 1)
    /\ pc \in {"confirm", "commit"} \/ InWrite => RelPaths(changes) = AcceptedPaths(Len(blocks))

----------------------------------------------------------------------------

\* The indexes of the Changes that are not unchanged and name the path p.
WritesTo(p) ==
    {k \in 1..Len(changes) : changes[k].full_path = p /\ changes[k].status # "unchanged"}

\* The paths named by a Change that is not unchanged.
Targets == {changes[k].full_path : k \in {j \in 1..Len(changes) : changes[j].status # "unchanged"}}

\* The path p is as it was before the run, or is a directory made since.
Untouched(p) ==
    \/ p \in DOMAIN Fs0 /\ p \in DOMAIN fs /\ fs[p] = Fs0[p]
    \/ p \notin DOMAIN Fs0 /\ p \in DOMAIN fs /\ fs[p] = Dir

\* C12: nothing is written while the Changes are planned, so every status
\* and diff is computed against the filesystem as it was before the first
\* write; write_file_atomic is called in the order of the Changes; and
\* after a commit in which no write failed every path named by a Change
\* that is not unchanged holds the new content of the last such Change for
\* it, every other file being as it was.
C12_PlanThenCommit ==
    /\ pc = "plan" => fs = Fs0 /\ writes = <<>> /\ changes = PlanOf(idx - 1)
    /\ Planned => changes = PlanOf(Len(blocks))
    /\ \A k \in 1..(Len(writes) - 1) : writes[k] < writes[k + 1]
    /\ LastMsg = "Applied" /\ faults = <<>> =>
          /\ \A p \in Targets :
                p \in DOMAIN fs /\ fs[p] = File(changes[Max(WritesTo(p))].new_content)
          /\ \A p \in ((DOMAIN fs) \cup (DOMAIN Fs0)) \ Targets : Untouched(p)

\* C12 witness: two blocks named the same path, the first was written and
\* the second, equal to the content on disk before the run, was passed.
C12_Witness ==
    /\ LastMsg = "Applied"
    /\ faults = <<>>
    /\ \E i \in 1..Len(changes), j \in 1..Len(changes) :
          /\ i < j
          /\ changes[i].full_path = changes[j].full_path
          /\ changes[i].status = "modified"
          /\ changes[j].status = "unchanged"

====
